---------------------------- MODULE Spec2Model ----------------------------
(***************************************************************************)
(* sqlite-to-json (src/main.cpp): the program that dumps a database to a   *)
(* JSON document by running the sqlite3 command line and parsing its text. *)
(*                                                                         *)
(* A std::string is a sequence of one-character strings, positions are     *)
(* 0-based as in the code (Substr converts to the 1-based sequences), and  *)
(* std::string::npos is NPOS.                                              *)
(***************************************************************************)
EXTENDS Integers, Sequences, FiniteSets, TLC

VARIABLES
    argc, argv1,        \* main's arguments: argc, and argv[1] when argc >= 2
    pc,                 \* position of the program
    dbFile_,            \* Database::dbFile_
    command_,           \* CommandRunner::command_ (the text held by the stream)
    invoked,            \* the command strings handed to runCommand, in order
    streamed,           \* the tokens streamed into command_ before each execute()
    jsonPath,           \* main's jsonPath
    tables, ti,         \* serialize: the tables, and the index of the current one
    columns, records,   \* serialize: the current table's columns and records
    fetched,            \* what getTableColumns/getTableRecords returned, per table
    json,               \* serialize: the document under construction
    file,               \* the output file: absent, old, empty or written
    fileGood,           \* whether serialize's ofstream is open on the file
    status,             \* the process outcome
    caught,             \* the exceptions main's catch clause has handled
    exception,          \* what() of the exception thrown, "none" before
    arg, ret            \* a single call of a function: its arguments, its result

mainVars == <<argc, argv1, jsonPath, dbFile_>>
runnerVars == <<command_, invoked, streamed>>
docVars == <<tables, ti, columns, records, fetched, json>>
outVars == <<file, fileGood>>
endVars == <<status, caught, exception>>
progVars == <<mainVars, runnerVars, docVars, outVars, endVars, pc>>
callVars == <<arg, ret>>
vars == <<argc, argv1, jsonPath, dbFile_, command_, invoked, streamed,
          tables, ti, columns, records, fetched, json, file, fileGood,
          status, caught, exception, pc, arg, ret>>

-----------------------------------------------------------------------------
(* std::string *)

NPOS == -1

Min(a, b) == IF a < b THEN a ELSE b

\* str.substr(pos, n)
Substr(str, pos, n) == SubSeq(str, pos + 1, Min(pos + n, Len(str)))

\* str.substr(pos)
SubstrFrom(str, pos) == SubSeq(str, pos + 1, Len(str))

\* whether separator occurs in input at position p
OccursAt(input, separator, p) ==
    /\ p + Len(separator) <= Len(input)
    /\ \A j \in 1..Len(separator) : input[p + j] = separator[j]

\* input.find(separator, start)
Find(input, separator, start) ==
    LET hits == {p \in start..Len(input) : OccursAt(input, separator, p)}
    IN  IF hits = {} THEN NPOS ELSE CHOOSE p \in hits : \A q \in hits : p <= q

\* str.find_first_not_of(set)
FindFirstNotOf(str, set) ==
    LET hits == {p \in 0..(Len(str) - 1) : str[p + 1] \notin set}
    IN  IF hits = {} THEN NPOS ELSE CHOOSE p \in hits : \A q \in hits : p <= q

\* str.find_last_not_of(set)
FindLastNotOf(str, set) ==
    LET hits == {p \in 0..(Len(str) - 1) : str[p + 1] \notin set}
    IN  IF hits = {} THEN NPOS ELSE CHOOSE p \in hits : \A q \in hits : p >= q

\* all strings over an alphabet, of length at most n
RECURSIVE StringsUpTo(_, _)
StringsUpTo(alphabet, n) ==
    IF n = 0 THEN {<<>>}
    ELSE LET shorter == StringsUpTo(alphabet, n - 1)
         IN  shorter \cup {Append(s, c) : s \in shorter, c \in alphabet}

\* the elements joined with a separator between neighbours
RECURSIVE Join(_, _)
Join(strings, separator) ==
    IF Len(strings) = 0 THEN <<>>
    ELSE IF Len(strings) = 1 THEN strings[1]
    ELSE strings[1] \o separator \o Join(Tail(strings), separator)

-----------------------------------------------------------------------------
(* splitString, trimString *)

\* the while loop of splitString with start advanced by one character only
RECURSIVE SplitLoopStepOne(_, _, _, _)
SplitLoopStepOne(input, separator, start, tokens) ==
    LET end == Find(input, separator, start)
    IN  IF end # NPOS
        THEN SplitLoopStepOne(input, separator, end + 1,
                              Append(tokens, Substr(input, start, end - start)))
        ELSE Append(tokens, SubstrFrom(input, start))

splitStringStepOne(input, separator) ==
    SplitLoopStepOne(input, separator, 0, <<>>)

\* the while loop of splitString, then the push of the last token
RECURSIVE SplitLoop(_, _, _, _)
SplitLoop(input, separator, start, tokens) ==
    LET end == Find(input, separator, start)
    IN  IF end # NPOS
        THEN SplitLoop(input, separator, end + Len(separator),
                       Append(tokens, Substr(input, start, end - start)))
        ELSE Append(tokens, SubstrFrom(input, start))

splitString(input, separator) == SplitLoop(input, separator, 0, <<>>)

TrimSet == {" ", "\t", "\n", "\r"}

trimString(str) ==
    LET start == FindFirstNotOf(str, TrimSet)
        end   == FindLastNotOf(str, TrimSet)
    IN  IF start = NPOS \/ end = NPOS THEN <<>>
        ELSE Substr(str, start, end - start + 1)

-----------------------------------------------------------------------------
(* Database::omitNullStrings *)

\* the lambda of omitNullStrings
isNull(str) == \A i \in 1..Len(str) : ~(str[i] # " " /\ str[i] # "\t" /\ str[i] # "\n")

NotNull(str) == ~isNull(str)

omitNullStrings(strings) == SelectSeq(strings, NotNull)

-----------------------------------------------------------------------------
(* std::stoi and std::stod.  Both skip leading white space, take an        *)
(* optional sign and convert the longest prefix that is a number; neither  *)
(* requires the whole text to be consumed.  A result is [thrown |-> ...]   *)
(* when the call throws, else the value and the position after the prefix. *)
(* stod's hexadecimal, "inf" and "nan" forms need letters that no input of *)
(* this model holds.                                                       *)

INT_MAX == 2147483647
INT_MIN == (0 - INT_MAX) - 1

CSpace == {" ", "\t", "\n", "\f", "\r"}

DigitChars == <<"0", "1", "2", "3", "4", "5", "6", "7", "8", "9">>

IsDigit(c) == \E d \in 1..10 : DigitChars[d] = c

DigitVal(c) == (CHOOSE d \in 1..10 : DigitChars[d] = c) - 1

\* the position after the run of digits that starts at position p
RECURSIVE DigitsEnd(_, _)
DigitsEnd(str, p) ==
    IF p < Len(str) /\ IsDigit(str[p + 1]) THEN DigitsEnd(str, p + 1) ELSE p

\* The digits at positions from .. to-1 as a number of [INT_MIN, 0], the
\* negated magnitude after acc, or Overflow when the magnitude is beyond
\* -INT_MIN: the conversion keeps the width of int.
Overflow == 1

RECURSIVE NegatedValue(_, _, _, _)
NegatedValue(str, from, to, acc) ==
    IF from >= to THEN acc
    ELSE LET d == DigitVal(str[from + 1])
             cutoff == 0 - (INT_MAX \div 10)
             cutlim == (INT_MAX % 10) + 1
         IN  IF acc < cutoff \/ (acc = cutoff /\ d > cutlim) THEN Overflow
             ELSE NegatedValue(str, from + 1, to, acc * 10 - d)

\* the position of the first character that is not white space
SkipSpace(str) ==
    LET p == FindFirstNotOf(str, CSpace) IN IF p = NPOS THEN Len(str) ELSE p

HasSignAt(str, p) == p < Len(str) /\ str[p + 1] \in {"+", "-"}

IsMinusAt(str, p) == p < Len(str) /\ str[p + 1] = "-"

\* the position after the sign, if there is one at position p
AfterSign(str, p) == IF HasSignAt(str, p) THEN p + 1 ELSE p

\* stoi, the digits at positions p1 .. p2-1 converted to the negated magnitude n
stoiResult(neg, p1, p2, n) ==
    IF p2 = p1 THEN [thrown |-> "invalid_argument"]
    ELSE IF n = Overflow \/ (~neg /\ n = INT_MIN) THEN [thrown |-> "out_of_range"]
    ELSE [thrown |-> "none", value |-> IF neg THEN n ELSE 0 - n, pos |-> p2]

stoiDigits(str, neg, p1, p2) ==
    stoiResult(neg, p1, p2, NegatedValue(str, p1, p2, 0))

stoiSigned(str, p0) ==
    stoiDigits(str, IsMinusAt(str, p0), AfterSign(str, p0),
               DigitsEnd(str, AfterSign(str, p0)))

stoi(str) == stoiSigned(str, SkipSpace(str))

\* A real is a decimal: a sign, the significant digits (no leading and no
\* trailing zero; none at all for zero) and the power of ten of the last one.
RECURSIVE StripLeadingZeros(_)
StripLeadingZeros(digits) ==
    IF Len(digits) > 0 /\ digits[1] = "0" THEN StripLeadingZeros(Tail(digits))
    ELSE digits

RECURSIVE Normal(_, _, _)
Normal(neg, digits, exp) ==
    IF Len(digits) = 0 THEN [neg |-> neg, digits |-> <<>>, exp |-> 0]
    ELSE IF digits[Len(digits)] = "0"
         THEN Normal(neg, SubSeq(digits, 1, Len(digits) - 1), exp + 1)
    ELSE [neg |-> neg, digits |-> digits, exp |-> exp]

HasDotAt(str, p) == p < Len(str) /\ str[p + 1] = "."

\* the position after the fraction, if there is one at position intEnd
FractionEnd(str, intEnd) ==
    IF HasDotAt(str, intEnd) THEN DigitsEnd(str, intEnd + 1) ELSE intEnd

\* the digits before and after the '.', whose last one is at fracEnd-1
MantissaDigits(str, p1, intEnd, fracEnd) ==
    SubSeq(str, p1 + 1, intEnd)
        \o (IF fracEnd > intEnd THEN SubSeq(str, intEnd + 2, fracEnd) ELSE <<>>)

\* the position after the exponent that starts at position p with 'e' or 'E',
\* or p when no exponent with a digit is there
ExponentEnd(str, p) ==
    IF p < Len(str) /\ str[p + 1] \in {"e", "E"}
          /\ DigitsEnd(str, AfterSign(str, p + 1)) > AfterSign(str, p + 1)
    THEN DigitsEnd(str, AfterSign(str, p + 1))
    ELSE p

\* the value of the exponent at positions p .. expEnd-1, 0 when none is there
ExponentValue(str, p, expEnd) ==
    IF expEnd = p THEN 0
    ELSE IF IsMinusAt(str, p + 1)
         THEN NegatedValue(str, AfterSign(str, p + 1), expEnd, 0)
    ELSE 0 - NegatedValue(str, AfterSign(str, p + 1), expEnd, 0)

\* stod, the mantissa digits (nFrac of them after the '.') ending at fracEnd
stodResult(str, neg, digits, nFrac, fracEnd, expEnd) ==
    IF Len(digits) = 0 THEN [thrown |-> "invalid_argument"]
    ELSE [thrown |-> "none",
          real |-> Normal(neg, StripLeadingZeros(digits),
                          ExponentValue(str, fracEnd, expEnd) - nFrac),
          pos |-> expEnd]

stodMantissa(str, neg, p1, intEnd, fracEnd) ==
    stodResult(str, neg, MantissaDigits(str, p1, intEnd, fracEnd),
               IF fracEnd > intEnd THEN fracEnd - (intEnd + 1) ELSE 0,
               fracEnd, ExponentEnd(str, fracEnd))

stodInteger(str, neg, p1, intEnd) ==
    stodMantissa(str, neg, p1, intEnd, FractionEnd(str, intEnd))

stodSigned(str, p0) ==
    stodInteger(str, IsMinusAt(str, p0), AfterSign(str, p0),
                DigitsEnd(str, AfterSign(str, p0)))

stod(str) == stodSigned(str, SkipSpace(str))

-----------------------------------------------------------------------------
(* nlohmann::json values.  An object is a function from its keys to their  *)
(* values (std::map: one value per key), an array a sequence.              *)

JNull == [kind |-> "null"]
JInt(n) == [kind |-> "integer", int |-> n]
JReal(r) == [kind |-> "real", real |-> r]
JString(s) == [kind |-> "string", str |-> s]
JObject(f) == [kind |-> "object", members |-> f]
JArray(s) == [kind |-> "array", elems |-> s]

EmptyMembers == [k \in {} |-> JNull]

\* the members of j once operator[](key) has turned a null j into an object
MembersOf(j) == IF j.kind = "null" THEN EmptyMembers ELSE j.members

\* j after  j[key];  : a null j becomes an object, an absent key is added as null
JTouch(j, key) ==
    LET f == MembersOf(j)
    IN  JObject([k \in DOMAIN f \cup {key} |-> IF k \in DOMAIN f THEN f[k] ELSE JNull])

\* j after  j[key] = value;
JSet(j, key, value) ==
    LET f == MembersOf(j)
    IN  JObject([k \in DOMAIN f \cup {key} |-> IF k = key THEN value ELSE f[k]])

\* j after  j.emplace_back();  : a null j becomes an array, a null element is added
JEmplaceBack(j) ==
    JArray(Append(IF j.kind = "null" THEN <<>> ELSE j.elems, JNull))

-----------------------------------------------------------------------------
(* The coercion of one field in Database::serialize.                       *)

\* the value assigned by the try blocks, given what stoi and stod do
coerceParsed(field, integer, real) ==
    IF integer.thrown = "none" THEN JInt(integer.value)
    ELSE IF real.thrown = "none" THEN JReal(real.real)
    ELSE JString(field)

\* the value assigned by the try blocks of a non-empty field
coerceNonEmpty(field) == coerceParsed(field, stoi(field), stod(field))

\* the value stored under the field's column
coerce(field) == IF field = <<>> THEN JNull ELSE coerceNonEmpty(field)

-----------------------------------------------------------------------------
(* Database::getTableRecords, from the output of the select-all query on.  *)

\* the loop that sets fieldAllEmpty
fieldAllEmpty(record) == \A i \in 1..Len(record) : record[i] = <<>>

\* a record is pushed whatever its fields hold
keepRecordUnfiltered(record) == Len(record) > 0

\* the condition under which a record is pushed
keepRecord(record) == Len(record) > 0 /\ ~fieldAllEmpty(record)

\* the loop over the lines, from line i on
RECURSIVE RecordsLoop(_, _, _)
RecordsLoop(lines, i, acc) ==
    IF i > Len(lines) THEN acc
    ELSE LET record == splitString(lines[i], <<"|">>)
         IN  RecordsLoop(lines, i + 1,
                         IF keepRecord(record) THEN Append(acc, record) ELSE acc)

parseRecords(output) == RecordsLoop(splitString(output, <<"\n">>), 1, <<>>)

-----------------------------------------------------------------------------
(* main: the output path derived from the input path.                      *)

DotJson == <<".", "j", "s", "o", "n">>

\* the path cut at its last '.' instead of its first
deriveJsonPathLastDot(dbFile) ==
    LET dots   == {p \in 0..(Len(dbFile) - 1) : dbFile[p + 1] = "."}
        dotPos == IF dots = {} THEN NPOS
                  ELSE CHOOSE p \in dots : \A q \in dots : p >= q
    IN  IF dotPos # NPOS THEN Substr(dbFile, 0, dotPos) \o DotJson
        ELSE dbFile \o DotJson

deriveJsonPath(dbFile) ==
    LET dotPos == Find(dbFile, <<".">>, 0)
    IN  IF dotPos # NPOS THEN Substr(dbFile, 0, dotPos) \o DotJson
        ELSE dbFile \o DotJson

-----------------------------------------------------------------------------
(* The state of the program before main runs, and the result of one call.  *)

NoRet == [done |-> FALSE]
Returned(v) == [done |-> TRUE, value |-> v]

FileAbsent == [state |-> "absent"]
FileOld == [state |-> "old"]
FileEmpty == [state |-> "empty"]
FileWritten(doc) == [state |-> "written", doc |-> doc]

\* the state of the objects before anything runs
Fresh ==
    /\ command_ = <<>>
    /\ invoked = <<>>
    /\ streamed = <<>>
    /\ jsonPath = <<>>
    /\ tables = <<>>
    /\ ti = 0
    /\ columns = <<>>
    /\ records = <<>>
    /\ fetched = <<>>
    /\ json = JNull
    /\ fileGood = FALSE
    /\ status = "running"
    /\ caught = 0
    /\ exception = "none"

NoProgram ==
    /\ Fresh
    /\ pc = "call"
    /\ dbFile_ = <<>>
    /\ argc = 0
    /\ argv1 = <<>>
    /\ file = FileAbsent

-----------------------------------------------------------------------------
(* splitString applied to every text and separator of the bounds.          *)

MaxSplitLen == 4
MaxSepLen == 2
SplitChars == {"a", "|", " "}
SplitTexts == StringsUpTo(SplitChars, MaxSplitLen)
Separators == StringsUpTo(SplitChars, MaxSepLen) \ {<<>>}

InitSplit ==
    /\ NoProgram
    /\ arg \in [input : SplitTexts, separator : Separators]
    /\ ret = NoRet

CallSplitString ==
    /\ ret = NoRet
    /\ ret' = Returned(splitString(arg.input, arg.separator))
    /\ UNCHANGED <<arg, progVars>>

SpecSplit == InitSplit /\ [][CallSplitString]_vars

\* C5: for every text and every non-empty separator, splitString returns at
\* least one element, the elements joined with the separator are the text,
\* and a text without the separator comes back as the single element.
SplitJoinsBack ==
    ret.done =>
        /\ Len(ret.value) >= 1
        /\ Join(ret.value, arg.separator) = arg.input
        /\ (\A p \in 0..Len(arg.input) : ~OccursAt(arg.input, arg.separator, p))
               => ret.value = <<arg.input>>

\* a two-character separator found twice, and once not found at all
SplitWitness ==
    /\ ret.done
    /\ arg.separator = <<"|", "|">>
    /\ arg.input = <<"|", "|", "|", "|">>
    /\ ret.value = <<<<>>, <<>>, <<>>>>

-----------------------------------------------------------------------------
(* omitNullStrings applied to every sequence of strings of the bounds.     *)

MaxOmitLen == 2
MaxOmitCount == 2
OmitChars == {" ", "\t", "\n", "\r", "a"}
OmitInputs == StringsUpTo(StringsUpTo(OmitChars, MaxOmitLen), MaxOmitCount)

InitOmit == NoProgram /\ arg \in OmitInputs /\ ret = NoRet

CallOmitNullStrings ==
    /\ ret = NoRet
    /\ ret' = Returned(omitNullStrings(arg))
    /\ UNCHANGED <<arg, progVars>>

SpecOmit == InitOmit /\ [][CallOmitNullStrings]_vars

IsBlank(str) == \A i \in 1..Len(str) : str[i] \in {" ", "\t", "\n", "\r"}

NotBlank(str) == ~IsBlank(str)

\* C6: omitNullStrings removes exactly the elements that are empty or made
\* only of space, tab, newline and carriage return, keeps the others in
\* order, and so no element it keeps is trimmed to the empty string.
OmitRemovesBlank ==
    ret.done =>
        /\ ret.value = SelectSeq(arg, NotBlank)
        /\ \A i \in 1..Len(ret.value) : trimString(ret.value[i]) # <<>>

-----------------------------------------------------------------------------
(* The coercion applied to every field text of the bounds.                 *)

MaxFieldLen == 3
FieldChars == {"7", "0", ".", "-", "a", " "}
FieldExamples ==
    { <<"4", "2">>, <<"3", ".", "1", "4">>, <<"7", "a", "b", "c">>,
      <<"a", "b", "c">>,
      <<"2", "1", "4", "7", "4", "8", "3", "6", "4", "7">>,
      <<"2", "1", "4", "7", "4", "8", "3", "6", "4", "8">>,
      <<"-", "2", "1", "4", "7", "4", "8", "3", "6", "4", "8">>,
      <<"-", "2", "1", "4", "7", "4", "8", "3", "6", "4", "9">>,
      <<".", "5", "e", "1">> }
FieldTexts == StringsUpTo(FieldChars, MaxFieldLen) \cup FieldExamples

InitCoerce == NoProgram /\ arg \in FieldTexts /\ ret = NoRet

CallCoerce ==
    /\ ret = NoRet
    /\ ret' = Returned(coerce(arg))
    /\ UNCHANGED <<arg, progVars>>

SpecCoerce == InitCoerce /\ [][CallCoerce]_vars

\* the value the claim gives a field: an integer only when the integer parse
\* consumes the entire text
claimedParsed(field, integer, real) ==
    IF field = <<>> THEN JNull
    ELSE IF integer.thrown = "none" /\ integer.pos = Len(field)
         THEN JInt(integer.value)
    ELSE IF real.thrown = "none" THEN JReal(real.real)
    ELSE JString(field)

claimedValue(field) == claimedParsed(field, stoi(field), stod(field))

\* C1: the coerced value is null iff the text is empty, else an integer only
\* when the entire text parses as an integer, else a real when a leading
\* prefix parses as a real, else the text itself.
CoercionAsClaimed ==
    ret.done =>
        /\ (ret.value = JNull <=> arg = <<>>)
        /\ ret.value = claimedValue(arg)

-----------------------------------------------------------------------------
(* getTableRecords applied to every output text of the bounds.             *)

MaxOutputLen == 5
OutputChars == {"a", "|", "\n"}
OutputTexts == StringsUpTo(OutputChars, MaxOutputLen)

InitRecords == NoProgram /\ arg \in OutputTexts /\ ret = NoRet

CallParseRecords ==
    /\ ret = NoRet
    /\ ret' = Returned(parseRecords(arg))
    /\ UNCHANGED <<arg, progVars>>

SpecRecords == InitRecords /\ [][CallParseRecords]_vars

\* a line that holds a character other than the field separator
HasField(line) == \E i \in 1..Len(line) : line[i] # "|"

\* the lines between the newlines of a text, in order
LinesOf(text) ==
    LET breaks == {p \in 1..Len(text) : text[p] = "\n"} \cup {0, Len(text) + 1}
        starts == breaks \ {Len(text) + 1}
        next(p) == CHOOSE q \in breaks : q > p /\ \A r \in breaks : r > p => q <= r
        nth[k \in 1..Cardinality(starts)] ==
            IF k = 1 THEN 0 ELSE next(nth[k - 1])
    IN  [k \in 1..Cardinality(starts) |-> SubSeq(text, nth[k] + 1, next(nth[k]) - 1)]

\* C4: getTableRecords returns, in order, the '|'-split fields of exactly the
\* lines of the output that hold a non-empty field; a line of empty fields
\* only (a blank line too) gives no record.
RecordsAreNonEmptyLines ==
    ret.done =>
        LET kept == SelectSeq(LinesOf(arg), HasField)
        IN  /\ Len(ret.value) = Len(kept)
            /\ \A k \in 1..Len(kept) :
                   /\ Join(ret.value[k], <<"|">>) = kept[k]
                   /\ \A i \in 1..Len(ret.value[k]) : "|" \notin
                          {ret.value[k][i][j] : j \in 1..Len(ret.value[k][i])}
            /\ \A k \in 1..Len(ret.value) :
                   \E i \in 1..Len(ret.value[k]) : ret.value[k][i] # <<>>

\* a row of empty fields between two kept rows is dropped
RecordsWitness ==
    /\ ret.done
    /\ arg = <<"a", "\n", "|", "\n", "a">>
    /\ ret.value = <<<<<<"a">>>>, <<<<"a">>>>>>

-----------------------------------------------------------------------------
(* The path derivation applied to every input path of the bounds.          *)

MaxPathLen == 4
PathChars == {"a", ".", "/"}
PathExamples ==
    { <<"t", "e", "s", "t", ".", "d", "b">>, <<"a", ".", "b", ".", "d", "b">>,
      <<"n", "o", "d", "o", "t">> }
Paths == StringsUpTo(PathChars, MaxPathLen) \cup PathExamples

InitPath == NoProgram /\ arg \in Paths /\ ret = NoRet

CallDeriveJsonPath ==
    /\ ret = NoRet
    /\ ret' = Returned(deriveJsonPath(arg))
    /\ UNCHANGED <<arg, progVars>>

SpecPath == InitPath /\ [][CallDeriveJsonPath]_vars

\* C9: the output path is the input path up to its first '.', or the whole
\* input path when it has none, followed by ".json".
PathCutAtFirstDot ==
    ret.done =>
        LET dots == {i \in 1..Len(arg) : arg[i] = "."}
        IN  /\ dots = {} => ret.value = arg \o DotJson
            /\ \A i \in dots :
                   (\A j \in dots : i <= j)
                       => ret.value = SubSeq(arg, 1, i - 1) \o DotJson
            /\ (arg = <<"t", "e", "s", "t", ".", "d", "b">>
                   => ret.value = <<"t", "e", "s", "t">> \o DotJson)
            /\ (arg = <<"n", "o", "d", "o", "t">> => ret.value = arg \o DotJson)

\* "a.b.db" gives "a.json"
PathWitness ==
    /\ ret.done
    /\ arg = <<"a", ".", "b", ".", "d", "b">>
    /\ ret.value = <<"a", ".", "j", "s", "o", "n">>

-----------------------------------------------------------------------------
(* CommandRunner and the three queries of Database.                        *)

Sqlite3 == <<"s", "q", "l", "i", "t", "e", "3">>
DotTables == <<".", "t", "a", "b", "l", "e", "s">>
PragmaOpen == <<"P", "R", "A", "G", "M", "A", " ", "t", "a", "b", "l", "e", "_",
                "i", "n", "f", "o", "(">>
PragmaClose == <<")", ";">>
SelectOpen == <<"S", "E", "L", "E", "C", "T", " ", "*", " ", "F", "R", "O", "M",
                " ", "'">>
SelectClose == <<"'", ";">>

wrapString(str) == <<"\"">> \o str \o <<"\"">>

\* CommandRunner::operator<<
Stream(command, value) == command \o value \o <<" ">>

RECURSIVE StreamAll(_, _)
StreamAll(command, tokens) ==
    IF tokens = <<>> THEN command
    ELSE StreamAll(Stream(command, Head(tokens)), Tail(tokens))

\* execute(): the command handed to runCommand, the trailing space removed
executeCommand(command) == Substr(command, 0, Len(command) - 1)

\* execute() leaving the stream as it is
builderKept(command) == command

\* execute(): the stream after clear() and str("")
builderCleared(command) == <<>>

\* the tokens each query streams
tablesTokens(db) == <<Sqlite3, db, DotTables>>
columnsTokens(db, table) ==
    <<Sqlite3, db, wrapString(PragmaOpen \o table \o PragmaClose)>>
recordsTokens(db, table) ==
    <<Sqlite3, db, wrapString(SelectOpen \o table \o SelectClose)>>

\* the streaming of the tokens and execute(), up to the call of runCommand;
\* failed tells whether runCommand then throws
Execute(tokens, failed) ==
    LET built == StreamAll(command_, tokens)
    IN  /\ command_' = builderCleared(built)
        /\ invoked' = Append(invoked,
                             [command |-> executeCommand(built), failed |-> failed])
        /\ streamed' = Append(streamed, tokens)

\* getTables, from the output of the query on
parseTables(output) ==
    LET kept == omitNullStrings(splitString(output, <<" ">>))
    IN  [i \in 1..Len(kept) |-> trimString(kept[i])]

\* getTableColumns, from the output of the query on.  parts[1] of a line
\* without '|' is read past the end of parts: undefined behaviour, whose
\* string is garbage when the program survives the read.
columnLines(output) == omitNullStrings(splitString(output, <<"\n">>))

columnsOutOfBounds(output) ==
    \E i \in 1..Len(columnLines(output)) :
        Len(splitString(columnLines(output)[i], <<"|">>)) < 2

parseColumns(output, garbage) ==
    LET lines == columnLines(output)
    IN  [i \in 1..Len(lines) |->
            LET parts == splitString(lines[i], <<"|">>)
            IN  IF Len(parts) >= 2 THEN parts[2] ELSE garbage]

Garbage == {<<>>, <<"?">>}

-----------------------------------------------------------------------------
(* Database::serialize: the loops that build the document.                 *)

\* columns[i]; past the end of columns it is undefined behaviour (garbage
\* when the program survives the read)
columnAt(cols, i, garbage) == IF i <= Len(cols) THEN cols[i] ELSE garbage

\* the body of the loop over the fields
setField(recordJson, field, column) ==
    IF field = <<>> THEN JTouch(recordJson, column)
    ELSE JSet(recordJson, column, coerceNonEmpty(field))

\* the loop over the fields of one record, from field i on
RECURSIVE FieldsLoop(_, _, _, _, _)
FieldsLoop(recordJson, record, cols, i, garbage) ==
    IF i > Len(record) THEN recordJson
    ELSE FieldsLoop(setField(recordJson, record[i], columnAt(cols, i, garbage)),
                    record, cols, i + 1, garbage)

\* the fields of a record stored into the element emplace_back has added
fillLast(grown, record, cols, garbage) ==
    JArray([grown.elems EXCEPT ![Len(grown.elems)] =
                FieldsLoop(grown.elems[Len(grown.elems)], record, cols, 1, garbage)])

\* the loop over the records of one table, from record k on
RECURSIVE TableLoop(_, _, _, _, _)
TableLoop(tableJson, recs, cols, k, garbage) ==
    IF k > Len(recs) THEN tableJson
    ELSE TableLoop(fillLast(JEmplaceBack(tableJson), recs[k], cols, garbage),
                   recs, cols, k + 1, garbage)

recordsOutOfBounds(cols, recs) ==
    \E k \in 1..Len(recs) : Len(recs[k]) > Len(cols)

\* the document after the records of a table are added under its name
assembleTable(doc, table, cols, recs, garbage) ==
    JSet(doc, table, TableLoop(doc.members[table], recs, cols, 1, garbage))

\* the loop over the tables goes on to the output after the first table
afterTableStop(i, n) == "open"

\* where the loop over the tables goes after table i of n
afterTable(i, n) == IF i < n THEN "getTableColumns" ELSE "open"

\* json.dump throws type_error.316 on a string that is not UTF-8
Byte255 == "<ff>"

RECURSIVE invalidUtf8(_)
invalidUtf8(j) ==
    IF j.kind = "string" THEN \E i \in 1..Len(j.str) : j.str[i] = Byte255
    ELSE IF j.kind = "object"
         THEN \E key \in DOMAIN j.members :
                  \/ \E i \in 1..Len(key) : key[i] = Byte255
                  \/ invalidUtf8(j.members[key])
    ELSE IF j.kind = "array"
         THEN \E i \in 1..Len(j.elems) : invalidUtf8(j.elems[i])
    ELSE FALSE

-----------------------------------------------------------------------------
(* What sqlite3 prints.  A table name list as .tables prints it, the lines *)
(* cid|name|type|notnull|dflt_value|pk of table_info (none for a table the *)
(* pragma cannot name, no '|' in a line under another output mode), and    *)
(* rows in list mode, NULL printed as the empty string.                    *)

TablesOutputs ==
    { <<>>, <<"t", "\n">>, <<"t", " ", " ", "u", "\n">> }

PragmaLine(cid, name) ==
    <<cid, "|">> \o name \o <<"|", "T", "|", "0", "|", "|", "0", "\n">>

ColumnsOutputs ==
    { <<>>,
      PragmaLine("0", <<"a">>),
      PragmaLine("0", <<"a">>) \o PragmaLine("1", <<"b">>),
      <<"a", "\n">> }

RecordsOutputs ==
    { <<>>,
      <<"1", "|", "x", "\n">>,
      <<"1", "|", "\n">>,
      <<"|", "\n">>,
      <<"1", "|", "x", "\n", "2", "|", "\n">>,
      <<Byte255, "\n">> }

-----------------------------------------------------------------------------
(* The program: main, then Database::serialize step by step.               *)

MaxArgc == 3
MainPaths == { <<"a", ".", "d", "b">>, <<"d", "b">> }

Init ==
    /\ Fresh
    /\ pc = "main"
    /\ dbFile_ = <<>>
    /\ argc \in 1..MaxArgc
    /\ argv1 \in (IF argc >= 2 THEN MainPaths ELSE {<<>>})
    /\ file \in {FileAbsent, FileOld}
    /\ arg = <<>>
    /\ ret = NoRet

\* an exception leaves serialize for main's catch clause
Throw(what) ==
    /\ pc' = "catch"
    /\ exception' = what
    /\ UNCHANGED <<status, caught>>

\* undefined behaviour ends the process
Crash ==
    /\ pc' = "exit"
    /\ status' = "crashed"
    /\ UNCHANGED <<caught, exception>>

Goto(label) ==
    /\ pc' = label
    /\ UNCHANGED endVars

\* argc == 1
MainNoArgument ==
    /\ pc = "main"
    /\ argc = 1
    /\ pc' = "exit"
    /\ status' = "return -1"
    /\ UNCHANGED <<mainVars, runnerVars, docVars, outVars, caught, exception,
                   callVars>>

\* argc != 2
MainInvalid ==
    /\ pc = "main"
    /\ argc # 1
    /\ argc # 2
    /\ pc' = "exit"
    /\ status' = "return -1"
    /\ UNCHANGED <<mainVars, runnerVars, docVars, outVars, caught, exception,
                   callVars>>

\* the derivation of jsonPath and the construction of the Database
MainStart ==
    /\ pc = "main"
    /\ argc # 1
    /\ ~(argc # 2)
    /\ jsonPath' = deriveJsonPath(argv1)
    /\ dbFile_' = wrapString(argv1)
    /\ Goto("getTables")
    /\ UNCHANGED <<argc, argv1, runnerVars, docVars, outVars, callVars>>

\* auto tables = getTables();
GetTables ==
    /\ pc = "getTables"
    /\ \/ /\ Execute(tablesTokens(dbFile_), TRUE)
          /\ Throw("popen() failed!")
          /\ UNCHANGED docVars
       \/ \E output \in TablesOutputs :
              /\ Execute(tablesTokens(dbFile_), FALSE)
              /\ tables' = parseTables(output)
              /\ ti' = 1
              /\ Goto(afterTable(0, Len(parseTables(output))))
              /\ UNCHANGED <<columns, records, fetched, json>>
    /\ UNCHANGED <<mainVars, outVars, callVars>>

\* auto& tableJson = json[table]; auto columns = getTableColumns(table);
GetTableColumns ==
    /\ pc = "getTableColumns"
    /\ json' = JTouch(json, tables[ti])
    /\ \/ /\ Execute(columnsTokens(dbFile_, tables[ti]), TRUE)
          /\ Throw("popen() failed!")
          /\ UNCHANGED columns
       \/ \E output \in ColumnsOutputs :
              /\ Execute(columnsTokens(dbFile_, tables[ti]), FALSE)
              /\ \/ /\ ~columnsOutOfBounds(output)
                    /\ columns' = parseColumns(output, <<>>)
                    /\ Goto("getTableRecords")
                 \/ /\ columnsOutOfBounds(output)
                    /\ \E garbage \in Garbage :
                           columns' = parseColumns(output, garbage)
                    /\ Goto("getTableRecords")
                 \/ /\ columnsOutOfBounds(output)
                    /\ Crash
                    /\ UNCHANGED columns
    /\ UNCHANGED <<mainVars, tables, ti, records, fetched, outVars, callVars>>

\* auto records = getTableRecords(table);
GetTableRecords ==
    /\ pc = "getTableRecords"
    /\ \/ /\ Execute(recordsTokens(dbFile_, tables[ti]), TRUE)
          /\ Throw("popen() failed!")
          /\ UNCHANGED records
       \/ \E output \in RecordsOutputs :
              /\ Execute(recordsTokens(dbFile_, tables[ti]), FALSE)
              /\ records' = parseRecords(output)
              /\ Goto("assemble")
    /\ UNCHANGED <<mainVars, tables, ti, columns, fetched, json, outVars,
                   callVars>>

\* the loop over the records of the current table, then the next table
AssembleTable ==
    /\ pc = "assemble"
    /\ \/ /\ ~recordsOutOfBounds(columns, records)
          /\ json' = assembleTable(json, tables[ti], columns, records, <<>>)
          /\ Goto(afterTable(ti, Len(tables)))
       \/ /\ recordsOutOfBounds(columns, records)
          /\ \E garbage \in Garbage :
                 json' = assembleTable(json, tables[ti], columns, records, garbage)
          /\ Goto(afterTable(ti, Len(tables)))
       \/ /\ recordsOutOfBounds(columns, records)
          /\ Crash
          /\ UNCHANGED json
    /\ fetched' = IF pc' = "exit" THEN fetched
                  ELSE Append(fetched, [table |-> tables[ti], columns |-> columns,
                                        records |-> records])
    /\ ti' = IF pc' = "exit" THEN ti ELSE ti + 1
    /\ UNCHANGED <<mainVars, runnerVars, tables, columns, records, outVars,
                   callVars>>

\* std::ofstream file(outputPath): the file is created or truncated, unless
\* it cannot be opened, which the stream only records
OpenFile ==
    /\ pc = "open"
    /\ \/ file' = FileEmpty /\ fileGood' = TRUE
       \/ file' = file /\ fileGood' = FALSE
    /\ Goto("dump")
    /\ UNCHANGED <<mainVars, runnerVars, docVars, callVars>>

\* file << json.dump(4);
DumpFile ==
    /\ pc = "dump"
    /\ \/ /\ invalidUtf8(json)
          /\ Throw("type_error.316")
          /\ UNCHANGED file
       \/ /\ ~invalidUtf8(json)
          /\ file' = IF fileGood THEN FileWritten(json) ELSE file
          /\ Goto("return")
    /\ UNCHANGED <<mainVars, runnerVars, docVars, fileGood, callVars>>

\* catch (std::exception& e)
MainCatch ==
    /\ pc = "catch"
    /\ caught' = caught + 1
    /\ pc' = "return"
    /\ UNCHANGED <<mainVars, runnerVars, docVars, outVars, status, exception,
                   callVars>>

\* return 0;
MainReturn ==
    /\ pc = "return"
    /\ status' = "return 0"
    /\ pc' = "exit"
    /\ UNCHANGED <<mainVars, runnerVars, docVars, outVars, caught, exception,
                   callVars>>

Next ==
    \/ MainNoArgument
    \/ MainInvalid
    \/ MainStart
    \/ GetTables
    \/ GetTableColumns
    \/ GetTableRecords
    \/ AssembleTable
    \/ OpenFile
    \/ DumpFile
    \/ MainCatch
    \/ MainReturn

Spec == Init /\ [][Next]_vars

Untouched(f) == f.state \in {"absent", "old"}

\* C2: the document written is an object keyed by the table names, and the
\* value under every table name is an array of objects, whatever the number
\* of tables and of rows.
DocumentIsTablesOfArrays ==
    file.state = "written" =>
        /\ file.doc.kind = "object"
        /\ DOMAIN file.doc.members = {tables[t] : t \in 1..Len(tables)}
        /\ \A name \in DOMAIN file.doc.members :
               /\ file.doc.members[name].kind = "array"
               /\ \A k \in 1..Len(file.doc.members[name].elems) :
                      file.doc.members[name].elems[k].kind = "object"

\* the k-th object of a table's array pairs every field of the k-th record
\* with the column name of its position
recordPaired(object, cols, record) ==
    \A i \in 1..Len(record) :
        /\ i <= Len(cols)
        /\ object.kind = "object"
        /\ cols[i] \in DOMAIN object.members
        /\ object.members[cols[i]] = coerce(record[i])

\* C3: for every table and every record kept for it, in order, the k-th
\* object of the table's array maps the i-th column name to the coerced i-th
\* field of the k-th record, a null field included.
DocumentPairsColumnsWithFields ==
    file.state = "written" =>
        \A t \in 1..Len(fetched) :
            fetched[t].records # <<>> =>
                /\ file.doc.kind = "object"
                /\ fetched[t].table \in DOMAIN file.doc.members
                /\ file.doc.members[fetched[t].table].kind = "array"
                /\ Len(file.doc.members[fetched[t].table].elems)
                       = Len(fetched[t].records)
                /\ \A k \in 1..Len(fetched[t].records) :
                       recordPaired(file.doc.members[fetched[t].table].elems[k],
                                    fetched[t].columns, fetched[t].records[k])

\* C7: with zero or with two or more arguments the program returns non-zero,
\* invokes no command and writes no file; with one it returns 0.
ArgumentCountDecidesOutcome ==
    pc = "exit" =>
        IF argc = 2 THEN status = "return 0"
        ELSE /\ status = "return -1"
             /\ invoked = <<>>
             /\ Untouched(file)

\* C8 as stated: whatever step of serialize the exception leaves from, the
\* output file is neither created nor truncated nor written.
ExceptionLeavesFileUntouched ==
    exception # "none" => Untouched(file)

\* C8: an exception that leaves serialize from a query (before the output
\* stream is opened) leaves the output file untouched; one that leaves from
\* the final dump leaves no document in the file, which the open may already
\* have created or truncated; either is caught once and the program returns
\* 0; and the file is touched only after every table's columns and records
\* have been fetched and coerced.
ExceptionLeavesNoDocument ==
    /\ caught <= 1
    /\ exception = "popen() failed!" => Untouched(file)
    /\ exception # "none" => file.state # "written"
    /\ (exception # "none" /\ pc = "exit") => (caught = 1 /\ status = "return 0")
    /\ ~Untouched(file) =>
           /\ Len(fetched) = Len(tables)
           /\ pc \in {"dump", "catch", "return", "exit"}

\* the records of the second table cannot be fetched: nothing is written
ExceptionWitness ==
    /\ pc = "exit"
    /\ exception = "popen() failed!"
    /\ Len(tables) = 2
    /\ Len(fetched) = 1
    /\ Len(invoked) = 5
    /\ caught = 1
    /\ status = "return 0"
    /\ file = FileOld

-----------------------------------------------------------------------------
(* One Database, its three queries called in any order.                    *)

MaxCalls == 3
DbPath == <<"a", ".", "d", "b">>
DbTables == { <<"t">>, <<"u">> }

Thrown(what) == [done |-> TRUE, thrown |-> what]

InitDb ==
    /\ Fresh
    /\ pc = "database"
    /\ dbFile_ = wrapString(DbPath)
    /\ argc = 0
    /\ argv1 = <<>>
    /\ file = FileAbsent
    /\ arg = <<>>
    /\ ret = NoRet

CallGetTables ==
    /\ pc = "database"
    /\ Len(invoked) < MaxCalls
    /\ \/ /\ Execute(tablesTokens(dbFile_), TRUE)
          /\ ret' = Thrown("popen() failed!")
       \/ \E output \in TablesOutputs :
              /\ Execute(tablesTokens(dbFile_), FALSE)
              /\ ret' = Returned(parseTables(output))
    /\ UNCHANGED <<mainVars, docVars, outVars, endVars, pc, arg>>

CallGetTableColumns ==
    /\ pc = "database"
    /\ Len(invoked) < MaxCalls
    /\ \E table \in DbTables :
           \/ /\ Execute(columnsTokens(dbFile_, table), TRUE)
              /\ ret' = Thrown("popen() failed!")
              /\ UNCHANGED <<pc, status>>
           \/ \E output \in ColumnsOutputs :
                  /\ Execute(columnsTokens(dbFile_, table), FALSE)
                  /\ \/ /\ ~columnsOutOfBounds(output)
                        /\ ret' = Returned(parseColumns(output, <<>>))
                        /\ UNCHANGED <<pc, status>>
                     \/ /\ columnsOutOfBounds(output)
                        /\ \E garbage \in Garbage :
                               ret' = Returned(parseColumns(output, garbage))
                        /\ UNCHANGED <<pc, status>>
                     \/ /\ columnsOutOfBounds(output)
                        /\ pc' = "exit"
                        /\ status' = "crashed"
                        /\ UNCHANGED ret
    /\ UNCHANGED <<mainVars, docVars, outVars, caught, exception, arg>>

CallGetTableRecords ==
    /\ pc = "database"
    /\ Len(invoked) < MaxCalls
    /\ \E table \in DbTables :
           \/ /\ Execute(recordsTokens(dbFile_, table), TRUE)
              /\ ret' = Thrown("popen() failed!")
           \/ \E output \in RecordsOutputs :
                  /\ Execute(recordsTokens(dbFile_, table), FALSE)
                  /\ ret' = Returned(parseRecords(output))
    /\ UNCHANGED <<mainVars, docVars, outVars, endVars, pc, arg>>

NextDb == CallGetTables \/ CallGetTableColumns \/ CallGetTableRecords

SpecDb == InitDb /\ [][NextDb]_vars

\* the number of positions at which a token occurs in a command
Occurrences(command, token) ==
    Cardinality({p \in 0..Len(command) : OccursAt(command, token, p)})

\* C10: after any sequence of the three queries, failed invocations
\* included, the builder is empty after every execute(), and every command
\* handed to an invocation is the tokens streamed since the previous
\* execute(), joined by single spaces with no trailing space, with no token
\* of an earlier command in it.
BuilderEmptyCommandsExact ==
    /\ command_ = <<>>
    /\ Len(invoked) = Len(streamed)
    /\ \A i \in 1..Len(invoked) :
           /\ invoked[i].command = Join(streamed[i], <<" ">>)
           /\ Occurrences(invoked[i].command, Sqlite3) = 1

\* a query that succeeds after two that failed, each with its own command
BuilderWitness ==
    /\ Len(invoked) = 3
    /\ invoked[1].failed
    /\ invoked[2].failed
    /\ ~invoked[3].failed
    /\ invoked[1].command = Join(tablesTokens(dbFile_), <<" ">>)
    /\ invoked[2].command = Join(columnsTokens(dbFile_, <<"t">>), <<" ">>)
    /\ invoked[3].command = Join(recordsTokens(dbFile_, <<"u">>), <<" ">>)
    /\ ret = Returned(<<<<<<"1">>, <<"x">>>>>>)

=============================================================================
